---- MODULE Spec2Model ----
(***************************************************************************)
(* DSATUR graph colouring (src/dsatur.py, function dsatur).                *)
(*                                                                         *)
(* The graph is a Python dict: vertex -> list of neighbours.  Vertices are *)
(* the integers 1..n, as main() builds them.  A neighbour list is modelled *)
(* by the set of its entries (the multiselect widget of main() returns no  *)
(* duplicates, and dsatur only tests membership and takes len).  The dict  *)
(* iterates in insertion order, which is the input keyOrder.  The set      *)
(* `uncolored` holds small non-negative integers; CPython stores each at   *)
(* slot hash(i) = i of a table larger than every identifier used here, so  *)
(* it iterates in ascending order, also after removals.                    *)
(***************************************************************************)
EXTENDS Integers, Sequences, FiniteSets, TLC

VARIABLES graph, keyOrder, pc, colors, colorOrder, dsat, degree, uncolored,
          nassign

vars == <<graph, keyOrder, pc, colors, colorOrder, dsat, degree, uncolored,
          nassign>>

\* Largest number of vertices of the symmetric input graphs (InitSym).
MaxN == 4

\* Largest number of vertices of the arbitrary input graphs (Init).
MaxV == 3

\* The empty dict.
EmptyDict == [x \in {} |-> 0]

(***************************************************************************)
(* Pure helpers, computed as the code computes them.                       *)
(***************************************************************************)

\* {colors[n] for n in graph[v] if n in colors}
ColoredNeighborColors(g, cols, v) == {cols[n] : n \in g[v] \cap DOMAIN cols}

RECURSIVE Scan(_, _)
\* while color in used_colors: color += 1
Scan(used, color) == IF color \in used THEN Scan(used, color + 1) ELSE color

SmallestAvailable_IfNotWhile(used) == IF 1 \in used THEN 2 ELSE 1

SmallestAvailable_From0(used) == Scan(used, 0)

\* color = 1; while color in used_colors: color += 1
SmallestAvailable(used) == Scan(used, 1)

LexGT_HeadOnly(a, b) == a # <<>> /\ b # <<>> /\ Head(a) > Head(b)

RECURSIVE LexGT(_, _)
\* Python's a > b on two tuples of integers of the same length.
LexGT(a, b) ==
    IF a = <<>> \/ b = <<>> THEN a # <<>> /\ b = <<>>
    ELSE IF Head(a) # Head(b) THEN Head(a) > Head(b)
    ELSE LexGT(Tail(a), Tail(b))

RECURSIVE MaxFrom(_, _, _, _)
\* The loop of max(): keep the first item whose key is strictly the largest.
MaxFrom(seq, key, i, best) ==
    IF i > Len(seq) THEN best
    ELSE IF LexGT(key[seq[i]], key[best])
         THEN MaxFrom(seq, key, i + 1, seq[i])
         ELSE MaxFrom(seq, key, i + 1, best)

RECURSIVE MaxFrom_Last(_, _, _, _)
MaxFrom_Last(seq, key, i, best) ==
    IF i > Len(seq) THEN best
    ELSE IF ~LexGT(key[best], key[seq[i]])
         THEN MaxFrom_Last(seq, key, i + 1, seq[i])
         ELSE MaxFrom_Last(seq, key, i + 1, best)

PyMax_Last(seq, key) == MaxFrom_Last(seq, key, 2, seq[1])

\* max(iterable, key=...) on a non-empty iterable enumerated as seq.
PyMax(seq, key) == MaxFrom(seq, key, 2, seq[1])

RECURSIVE SetIter(_)
\* The order in which a set of small integers is enumerated: ascending.
SetIter(S) ==
    IF S = {} THEN <<>>
    ELSE LET m == CHOOSE x \in S : \A y \in S : x <= y
         IN <<m>> \o SetIter(S \ {m})

Remove_Clear(S, v) == {}

\* uncolored.remove(v)
Remove(S, v) == S \ {v}

\* degree = {node: len(neighbors) for node, neighbors in graph.items()}
DegreeOf(g) == [node \in DOMAIN g |-> Cardinality(g[node])]

\* dsat after the first vertex: every still uncoloured neighbour of `first`
\* gets the number of distinct colours among its own coloured neighbours;
\* every other vertex keeps its initial value, its degree.
DsatAfterFirst(g, cols, unc, deg, first) ==
    [v \in DOMAIN g |->
        IF v \in g[first] \cap unc
        THEN Cardinality(ColoredNeighborColors(g, cols, v))
        ELSE deg[v]]

DsatAfterStep_CountNeighbors(g, cols, unc, deg, ds, next) ==
    [v \in DOMAIN g |->
        IF v \in g[next] \cap unc
        THEN Cardinality(g[v] \cap DOMAIN cols)
        ELSE ds[v]]

\* dsat after a main-loop assignment to `next`: every still uncoloured
\* neighbour is recomputed, with the degree as fallback when none of its
\* neighbours is coloured.
DsatAfterStep(g, cols, unc, deg, ds, next) ==
    [v \in DOMAIN g |->
        IF v \in g[next] \cap unc
        THEN LET colored_neighbors == ColoredNeighborColors(g, cols, v)
             IN IF colored_neighbors # {}
                THEN Cardinality(colored_neighbors)
                ELSE deg[v]
        ELSE ds[v]]

(***************************************************************************)
(* Inputs.                                                                 *)
(***************************************************************************)

\* The insertion orders of a dict with keys 1..n.
KeyOrders(n) ==
    {p \in [1..n -> 1..n] : \A i, j \in 1..n : i # j => p[i] # p[j]}

\* The insertion order of main(): graph = {i+1: [] for i in range(n)}.
Ascending(n) == [i \in 1..n |-> i]

\* Undirected simple graphs on 1..n, each edge listed at both ends.
SymGraphs(n) ==
    LET Pairs == {e \in SUBSET (1..n) : Cardinality(e) = 2}
    IN {[v \in 1..n |-> {u \in 1..n : {u, v} \in E}] : E \in SUBSET Pairs}

\* What the multiselect widgets of main() can produce: every vertex lists
\* any set of other declared vertices, each direction chosen on its own.
UIGraphs(n) ==
    LET Arcs == {a \in (1..n) \X (1..n) : a[1] # a[2]}
    IN {[v \in 1..n |-> {u \in 1..n : <<v, u>> \in A}] : A \in SUBSET Arcs}

\* An entry main() cannot produce but a direct caller can: vertex b[1]
\* lists itself, or lists n+1, which is no key of the graph.
InvalidEntries(n) == {b \in (1..n) \X (1..(n + 1)) : b[2] = b[1] \/ b[2] = n + 1}

AddEntries(g, B) == [v \in DOMAIN g |-> g[v] \cup {b[2] : b \in {c \in B : c[1] = v}}]

InitCommon ==
    /\ pc = "start"
    /\ colors = EmptyDict
    /\ colorOrder = <<>>
    /\ dsat = EmptyDict
    /\ degree = EmptyDict
    /\ uncolored = {}
    /\ nassign = 0

\* Any graph of main(), with at most one invalid entry added.
Init ==
    /\ \E n \in 0..MaxV :
         /\ keyOrder = Ascending(n)
         /\ \E g \in UIGraphs(n) :
              \E B \in {{}} \cup {{b} : b \in InvalidEntries(n)} :
                 graph = AddEntries(g, B)
    /\ InitCommon

\* Any symmetric simple graph, its keys inserted in any order.
InitSym ==
    /\ \E n \in 0..MaxN :
         /\ keyOrder \in KeyOrders(n)
         /\ graph \in SymGraphs(n)
    /\ InitCommon

(***************************************************************************)
(* dsatur, one action per block of the function.  A local of the code is   *)
(* bound once, as the only element of a singleton set.                     *)
(***************************************************************************)

\* Lines 17-34 on a non-empty graph: the working state, the first vertex
\* and the DSAT update that follows it.
FirstVertex ==
    /\ pc = "start"
    /\ DOMAIN graph # {}
    /\ \E deg \in {DegreeOf(graph)} :
         \E first_vertex \in {PyMax(keyOrder,
                                     [x \in DOMAIN graph |-> <<deg[x]>>])} :
            \E cols \in {(first_vertex :> 1)} :
               \E unc \in {Remove(DOMAIN graph, first_vertex)} :
                  /\ degree' = deg
                  /\ colors' = cols
                  /\ colorOrder' = <<first_vertex>>
                  /\ uncolored' = unc
                  /\ dsat' = DsatAfterFirst(graph, cols, unc, deg, first_vertex)
    /\ nassign' = nassign + 1
    /\ pc' = "loop"
    /\ UNCHANGED <<graph, keyOrder>>

FirstVertexRaises_ReturnsEmpty ==
    /\ pc = "start"
    /\ DOMAIN graph = {}
    /\ degree' = DegreeOf(graph)
    /\ pc' = "done"
    /\ UNCHANGED <<graph, keyOrder, colors, colorOrder, dsat, uncolored, nassign>>

\* Lines 17-27 on the empty graph: max() of an empty sequence raises
\* ValueError, which leaves dsatur without a return value.
FirstVertexRaises ==
    /\ pc = "start"
    /\ DOMAIN graph = {}
    /\ degree' = DegreeOf(graph)
    /\ pc' = "raised"
    /\ UNCHANGED <<graph, keyOrder, colors, colorOrder, dsat, uncolored, nassign>>

\* Lines 37-58: one iteration of the main loop.
LoopIteration ==
    /\ pc = "loop"
    /\ uncolored # {}
    /\ \E next_vertex \in {PyMax(SetIter(uncolored),
                                 [x \in uncolored |-> <<dsat[x], degree[x]>>])} :
         \E color \in {SmallestAvailable(
                          ColoredNeighborColors(graph, colors, next_vertex))} :
            \E cols \in {(next_vertex :> color) @@ colors} :
               \E unc \in {Remove(uncolored, next_vertex)} :
                  /\ colors' = cols
                  /\ colorOrder' = IF next_vertex \in DOMAIN colors
                                   THEN colorOrder
                                   ELSE Append(colorOrder, next_vertex)
                  /\ uncolored' = unc
                  /\ dsat' = DsatAfterStep(graph, cols, unc, degree, dsat,
                                           next_vertex)
    /\ nassign' = nassign + 1
    /\ UNCHANGED <<graph, keyOrder, pc, degree>>

\* Lines 37 and 60: the loop ends and colors is returned.
Return ==
    /\ pc = "loop"
    /\ uncolored = {}
    /\ pc' = "done"
    /\ UNCHANGED <<graph, keyOrder, colors, colorOrder, dsat, degree, uncolored,
                   nassign>>

Next == FirstVertex \/ FirstVertexRaises \/ LoopIteration \/ Return

Spec == Init /\ [][Next]_vars

SpecSym == InitSym /\ [][Next]_vars

(***************************************************************************)
(* Notions the claims are stated with, defined apart from the helpers.     *)
(***************************************************************************)

Colored == DOMAIN colors

\* The vertices that receive their colour in the step under consideration.
NewlyColored == DOMAIN colors' \ DOMAIN colors

\* The colours of the neighbours of v that are coloured before the step.
NeighborColors(v) == {colors[u] : u \in graph[v] \cap Colored}

\* c is the least positive integer outside used.
LeastPositiveOutside(c, used) ==
    c >= 1 /\ c \notin used /\ \A d \in 1..(c - 1) : d \in used

Symmetric == \A u, v \in DOMAIN graph : v \in graph[u] <=> u \in graph[v]

HasInvalidEntry ==
    \E v \in DOMAIN graph : v \in graph[v] \/ ~(graph[v] \subseteq DOMAIN graph)

PathGraph == (1 :> {2}) @@ (2 :> {1, 3}) @@ (3 :> {2, 4}) @@ (4 :> {3})

(***************************************************************************)
(* Claims.                                                                 *)
(***************************************************************************)

\* C1: on a non-empty symmetric graph without self-loops or undeclared
\* neighbours, in every state dsatur reaches, two adjacent vertices that are
\* both coloured have different colours.
C1_ProperColoring ==
    (DOMAIN graph # {} /\ Symmetric /\ ~HasInvalidEntry) =>
        \A u \in Colored : \A v \in graph[u] \cap Colored : colors[u] # colors[v]

C1_Witness ==
    /\ pc = "done"
    /\ \E u, v, w \in Colored :
         /\ v \in graph[u] /\ w \in graph[u] /\ w \in graph[v]
         /\ colors[u] = 1 /\ colors[v] = 2 /\ colors[w] = 3

\* C2: for every graph dsatur returns an assignment for, asymmetric ones
\* included, the returned colours differ on every edge of the symmetrized
\* graph (u lists v or v lists u).
C2_ProperOnSymmetrized ==
    pc = "done" =>
        \A u, v \in DOMAIN graph :
            (u # v /\ (v \in graph[u] \/ u \in graph[v])) => colors[u] # colors[v]

\* C3: every assignment gives the vertex the smallest positive integer that
\* is not the colour of one of its neighbours coloured at that moment; the
\* first vertex gets 1.
C3_SmallestColorStep ==
    \A v \in NewlyColored :
        /\ LeastPositiveOutside(colors'[v], NeighborColors(v))
        /\ pc = "start" => colors'[v] = 1

C3_SmallestColor == [][C3_SmallestColorStep]_vars

C3_Witness ==
    /\ pc = "done"
    /\ \E v \in Colored :
         /\ colors[v] = 3
         /\ \E u, w \in graph[v] \cap Colored : colors[u] = 1 /\ colors[w] = 2

\* C4: on a non-empty graph dsatur terminates after exactly |V| assignments:
\* each one moves exactly one vertex from Uncolored to the assignment, no
\* coloured vertex is recoloured or removed, and the returned assignment has
\* exactly the vertices of the graph as keys.
C4_AssignStep ==
    nassign' # nassign =>
        /\ nassign' = nassign + 1
        /\ \E v \in DOMAIN graph \ Colored :
             /\ DOMAIN colors' = Colored \cup {v}
             /\ uncolored' = DOMAIN graph \ DOMAIN colors'
        /\ \A u \in Colored : colors'[u] = colors[u]

C4_Returned ==
    pc = "done" =>
        /\ nassign = Cardinality(DOMAIN graph)
        /\ DOMAIN colors = DOMAIN graph
        /\ Cardinality(DOMAIN colors) = Cardinality(DOMAIN graph)
        /\ uncolored = {}

\* dsatur never stops before it returns, and it raises on the empty graph only.
C4_Progress ==
    /\ pc \in {"done", "raised"} \/ ENABLED Next
    /\ pc = "raised" => DOMAIN graph = {}

\* Every step of the main loop returns or shrinks Uncolored by one vertex.
C4_VariantStep ==
    pc = "loop" =>
        \/ pc' = "done"
        \/ Cardinality(uncolored') = Cardinality(uncolored) - 1

C4_Termination ==
    /\ [][/\ C4_AssignStep
          /\ nassign' = nassign => colors' = colors
          /\ C4_VariantStep]_vars
    /\ [](C4_Returned /\ C4_Progress)

C4_Witness ==
    pc = "done" /\ Cardinality(DOMAIN graph) = MaxV /\ nassign = MaxV

\* C5: every selection tie is resolved by the lowest vertex identifier, not
\* by the order in which the candidates are enumerated: the vertex picked is
\* the lowest-numbered of the candidates with the maximal key.
C5_LowestIdTieBreakStep ==
    \A v \in NewlyColored :
        IF pc = "start"
        THEN \A u \in DOMAIN graph :
                Cardinality(graph[u]) = Cardinality(graph[v]) => v <= u
        ELSE \A u \in uncolored :
                (dsat[u] = dsat[v] /\ degree[u] = degree[v]) => v <= u

C5_LowestIdTieBreak == [][C5_LowestIdTieBreakStep]_vars

\* C6: a neighbour list that names an undeclared vertex or the vertex itself
\* makes dsatur fail; no assignment is returned.
C6_InvalidAdjacencyRejected == HasInvalidEntry => pc # "done"

\* C7: on the graph with zero vertices dsatur ends in an error and returns
\* no (empty) assignment.
C7_EmptyGraphRaises ==
    (DOMAIN graph = {} /\ pc # "start") => (pc = "raised" /\ nassign = 0)

C7_Witness == DOMAIN graph = {} /\ pc = "raised"

\* C8: on the path {1:[2], 2:[1,3], 3:[2,4], 4:[3]} dsatur colours the
\* vertices in the order 2, 3, 1, 4 and returns {1:2, 2:1, 3:2, 4:1}, two
\* colours.
C8_PathScenario ==
    (graph = PathGraph /\ keyOrder = <<1, 2, 3, 4>> /\ pc = "done") =>
        /\ colorOrder = <<2, 3, 1, 4>>
        /\ colors = (1 :> 2) @@ (2 :> 1) @@ (3 :> 2) @@ (4 :> 1)
        /\ Cardinality({colors[v] : v \in DOMAIN colors}) = 2

C8_Witness == graph = PathGraph /\ keyOrder = <<1, 2, 3, 4>> /\ pc = "done"

\* C9: the first vertex coloured has maximum degree, and every vertex picked
\* in the main loop has a lexicographically maximal (DSAT, degree) among the
\* vertices uncoloured at that moment.
C9_MaximalPickStep ==
    \A v \in NewlyColored :
        IF pc = "start"
        THEN \A u \in DOMAIN graph : Cardinality(graph[u]) <= Cardinality(graph[v])
        ELSE \A u \in uncolored :
                /\ dsat[u] <= dsat[v]
                /\ dsat[u] = dsat[v] => degree[u] <= degree[v]

C9_MaximalPick == [][C9_MaximalPickStep]_vars

C9_Witness ==
    /\ pc = "loop"
    /\ Len(colorOrder) = 2
    /\ \E u \in uncolored :
         u \notin graph[colorOrder[2]] /\ dsat[u] < dsat[colorOrder[2]]

\* C10: on a symmetric graph, whenever the main loop selects (and at loop
\* exit), dsat[v] of every uncoloured v is the number of distinct colours of
\* its coloured neighbours if it has one, and its degree otherwise.
C10_DsatInvariant ==
    (Symmetric /\ pc \in {"loop", "done"}) =>
        \A v \in uncolored :
            IF graph[v] \cap Colored # {}
            THEN dsat[v] = Cardinality(NeighborColors(v))
            ELSE dsat[v] = Cardinality(graph[v])

C10_Witness ==
    /\ pc = "loop"
    /\ \E v \in uncolored :
         /\ dsat[v] = 2
         /\ \E u, w \in graph[v] \cap Colored : colors[u] # colors[w]
    /\ \E v \in uncolored : graph[v] \cap Colored = {} /\ dsat[v] = degree[v]

====
